---- MODULE Spec2Model ----
(***************************************************************************)
(* A model of vsscale: descale() and its per-frame selector                *)
(* (src/vsscale/descale.py), the gamma conversions (src/vsscale/gamma.py)  *)
(* and the two descale masks (src/vsscale/mask.py).                        *)
(*                                                                         *)
(* One behaviour of the model is one call of one of the library's          *)
(* functions, started from the idle state, followed step by step; for      *)
(* descale() the behaviour goes on with the frames a consumer requests     *)
(* from the clip it returned.                                              *)
(***************************************************************************)
EXTENDS Integers, Sequences, FiniteSets, TLC

VARIABLES
    pc,            \* position: which function runs and how far it got
    err,           \* the exception raised, "none" when none
    clip,          \* the source clip of the call
    kernelsArg,    \* descale(): the kernels argument as passed
    widthArg,      \* descale(): the width argument as passed
    heightArg,     \* descale(): the height argument as passed
    thr,           \* descale(): the rejection threshold, a rational <<num, den>>
    norm_kernels,  \* descale(): the normalised kernel list
    widths,        \* descale(): the list of widths
    heights,       \* descale(): the list of heights
    attempts,      \* descale(): descale_attempts, the candidates
    node,          \* descale(): the kind of clip `descaled` is
    n,             \* the frame index last requested from `descaled`
    stats,         \* PlaneStatsAverage of every candidate's diff at frame n
    out,           \* what `descaled` emitted for frame n
    call,          \* gamma and mask functions: the function called and its arguments
    result         \* gamma and mask functions: what the call computed

descaleVars == <<kernelsArg, widthArg, heightArg, thr, norm_kernels, widths,
                 heights, attempts, node, n, stats, out>>

vars == <<pc, err, clip, descaleVars, call, result>>

----------------------------------------------------------------------------
(* Bounds and input domains *)

MaxKernels == 2
MaxRes == 2
NumFrames == 2

KernelNames == {"Catrom", "Bilinear"}

\* Source clips: width, height, bit depth, sample type.
DescaleClips == {[width |-> 18, height |-> 9, depth |-> 8, sample_type |-> "INTEGER"]}

\* Candidate target heights: below the source height and equal to it.
HeightVals == {5, 7, 9}
WidthVals == {10}

\* Per-frame statistics (mean absolute difference, in [0, 1]) as rationals.
StatVals == {<<0, 1>>, <<2, 5>>, <<1, 2>>}
ThrVals == {<<0, 1>>, <<2, 5>>}

NoClip == [width |-> 0, height |-> 0, depth |-> 0, sample_type |-> "none"]
NoOut == [kind |-> "none", idx |-> -1]
NoCall == [fn |-> "none"]
NoResult == [kind |-> "none"]

SeqsUpTo(S, k) == UNION {[1..m -> S] : m \in 0..k}

----------------------------------------------------------------------------
(* Arithmetic of the Python runtime *)

Min(a, b) == IF a < b THEN a ELSE b

\* round(a / b) for a >= 0, b > 0: Python rounds halves to the even integer.
RoundHalfEven(a, b) ==
    LET q == a \div b
        r == a % b
    IN  IF 2 * r < b THEN q
        ELSE IF 2 * r > b THEN q + 1
        ELSE IF q % 2 = 0 THEN q ELSE q + 1

\* a < b and a > b on rationals <<num, den>> with positive denominators.
RatLess(a, b) == a[1] * b[2] < b[1] * a[2]
RatGreater(a, b) == RatLess(b, a)

\* Python's integers are unbounded and round(1 / 1e-12) is 10^12: the rounded
\* reciprocal is kept as two limbs <<hi, lo>> in base 10^6, hi * 10^6 + lo.
Limbs(v) == <<0, v>>
Round1e12 == <<1000000, 0>>

\* 1 / 0 raises ZeroDivisionError: no value.
ZeroDivision == <<-1, -1>>

\* 1000 * log2(d), rounded, for d in 1..8 (math.log2).
Log2Milli == <<0, 1000, 1585, 2000, 2322, 2585, 2807, 3000>>

\* 1000 * r ** 0.2, rounded, for the values round(1 / max(s, 1e-12)) takes.
Pow02Milli(r) ==
    IF r = Round1e12 THEN 251189
    ELSE <<1000, 1149, 1246, 1320, 1380, 1431, 1476, 1516>>[r[2]]

----------------------------------------------------------------------------
(* descale(): arguments to lists, validation (descale.py 84-109) *)

NormKernels(kArg) == IF kArg.kind = "list" THEN kArg.val ELSE <<kArg.val>>

HeightsOf(hArg) == IF hArg.kind = "int" THEN <<hArg.val>> ELSE hArg.val

WidthsOf(wArg, hs, c) ==
    IF wArg.kind = "none"
    THEN [i \in 1..Len(hs) |-> RoundHalfEven(hs[i] * c.width, c.height)]
    ELSE IF wArg.kind = "int" THEN <<wArg.val>> ELSE wArg.val

\* (mutant) the kernel list is not checked.
ValidateNoKernelCheck(ws, hs, ks) ==
    IF Len(ws) # Len(hs) THEN "ValueError" ELSE "none"

\* The two configuration checks, in the order of the code.
Validate(ws, hs, ks) ==
    IF Len(ws) # Len(hs) THEN "ValueError"
    ELSE IF Len(ks) = 0 THEN "ValueError"
    ELSE "none"

DescaleCall(c, wArg, hArg, kArg, t) ==
    /\ pc = "idle"
    /\ LET ks == NormKernels(kArg)
           hs == HeightsOf(hArg)
           ws == WidthsOf(wArg, hs, c)
           e  == Validate(ws, hs, ks)
       IN  /\ norm_kernels' = ks
           /\ heights' = hs
           /\ widths' = ws
           /\ err' = e
           /\ pc' = IF e = "none" THEN "validated" ELSE "raised"
    /\ clip' = c
    /\ kernelsArg' = kArg
    /\ widthArg' = wArg
    /\ heightArg' = hArg
    /\ thr' = t
    /\ call' = [fn |-> "descale"]
    /\ UNCHANGED <<attempts, node, n, stats, out, result>>

----------------------------------------------------------------------------
(* descale(): the candidates (descale.py 111-129) *)

\* list(zip(widths, heights))
ZipPairs(ws, hs) == [i \in 1..Min(Len(ws), Len(hs)) |-> <<ws[i], hs[i]>>]

\* seq * k: the list repeated k times.
Repeat(s, k) == [i \in 1..(Len(s) * k) |-> s[((i - 1) % Len(s)) + 1]]

\* list(zip(norm_kernels, list(zip(widths, heights)) * n_kernels))
KernelCombinations(ks, ws, hs) ==
    LET pairs == ZipPairs(ws, hs)
        rep == IF Len(pairs) = 0 THEN <<>> ELSE Repeat(pairs, Len(ks))
    IN  [i \in 1..Min(Len(ks), Len(rep)) |-> <<ks[i], rep[i]>>]

\* DescaleAttempt.from_args: the candidate with its tags; its descaled,
\* rescaled and diff clips are identified by idx.
DescaleAttempt(i, kernel, width, height) ==
    [idx |-> i, kernel |-> kernel, width |-> width, height |-> height]

DescaleAttempts(ks, ws, hs) ==
    LET kc == KernelCombinations(ks, ws, hs)
    IN  [i \in 1..Len(kc) |-> DescaleAttempt(i - 1, kc[i][1], kc[i][2][1], kc[i][2][2])]

BuildAttempts ==
    /\ pc = "validated"
    /\ attempts' = DescaleAttempts(norm_kernels, widths, heights)
    /\ pc' = "built"
    /\ UNCHANGED <<err, clip, kernelsArg, widthArg, heightArg, thr, norm_kernels,
                   widths, heights, node, n, stats, out, call, result>>

----------------------------------------------------------------------------
(* descale(): single or multi dispatch (descale.py 111, 131-141) *)

MultiDescale(ws) == Len(ws) > 1

BuildNode ==
    /\ pc = "built"
    /\ IF MultiDescale(widths)
       THEN /\ node' = "FrameEval"
            /\ err' = "none"
            /\ pc' = "ready"
       ELSE IF Len(attempts) = 0
       THEN /\ node' = "none"
            /\ err' = "IndexError"
            /\ pc' = "raised"
       ELSE /\ node' = "single"
            /\ err' = "none"
            /\ pc' = "ready"
    /\ UNCHANGED <<clip, kernelsArg, widthArg, heightArg, thr, norm_kernels,
                   widths, heights, attempts, n, stats, out, call, result>>

----------------------------------------------------------------------------
(* get_select_descale (descale.py 27-69) *)

\* The dict {attempt.resolution.height: attempt}: keys in the order of their
\* first insertion, a later attempt of the same height replacing the value.
RECURSIVE DictPut(_, _, _)
DictPut(d, key, val) ==
    IF d = <<>> THEN <<<<key, val>>>>
    ELSE IF d[1][1] = key THEN <<<<key, val>>>> \o Tail(d)
    ELSE <<d[1]>> \o DictPut(Tail(d), key, val)

RECURSIVE ClipsByHeightFrom(_, _, _)
ClipsByHeightFrom(as, i, d) ==
    IF i > Len(as) THEN d
    ELSE ClipsByHeightFrom(as, i + 1, DictPut(d, as[i].height, as[i]))

ClipsByHeight(as) == ClipsByHeightFrom(as, 1, <<>>)

DictGet(d, key) == d[CHOOSE j \in 1..Len(d) : d[j][1] = key][2]

\* diff_clips: one per dict value; each is named by its attempt.
DiffClips(as) == LET d == ClipsByHeight(as) IN [j \in 1..Len(d) |-> d[j][2]]

\* mapped_props: (descale_height, PlaneStatsAverage) of each diff clip's frame.
MappedProps(as, st) ==
    LET dc == DiffClips(as)
    IN  [j \in 1..Len(dc) |-> <<dc[j].height, st[dc[j].idx + 1]>>]

\* (mutant) round(1 / s): the statistic is not floored.
PstatsAvgNoFloor(s) ==
    IF s[1] = 0 THEN ZeroDivision ELSE Limbs(RoundHalfEven(s[2], s[1]))

\* round(1 / max(s, 1e-12)) for a statistic s = <<num, den>> in [0, 1]: a
\* nonzero statistic of the model is far above 1e-12.
PstatsAvg(s) == IF s[1] = 0 THEN Round1e12 ELSE Limbs(RoundHalfEven(s[2], s[1]))

\* _get_descale_score: log2 raises ValueError unless its argument is positive.
\* The value is in millionths.
GetDescaleScore(c, mp, i) ==
    LET d == c.height - mp[i][1]
        r == PstatsAvg(mp[i][2])
    IN  IF d <= 0 \/ r = ZeroDivision THEN [ok |-> FALSE, val |-> 0]
        ELSE [ok |-> TRUE, val |-> Log2Milli[d] * Pow02Milli(r)]

\* max(range(n_clips), key=...): the first index of the largest key.
RECURSIVE PyMaxFrom(_, _, _, _)
PyMaxFrom(c, mp, i, best) ==
    IF i > Len(mp) THEN best
    ELSE IF GetDescaleScore(c, mp, i).val > GetDescaleScore(c, mp, best).val
         THEN PyMaxFrom(c, mp, i + 1, i)
         ELSE PyMaxFrom(c, mp, i + 1, best)

BestRes(c, mp) == PyMaxFrom(c, mp, 2, 1)

ScoresOk(c, mp) == \A i \in 1..Len(mp) : GetDescaleScore(c, mp, i).ok

\* (mutant) a statistic equal to the threshold is rejected too.
RejectsAtThreshold(s, t) == t[1] # 0 /\ ~RatLess(s, t)

\* The rejection test of the thresholded _select_descale.
Rejects(s, t) == t[1] # 0 /\ RatGreater(s, t)

\* _select_descale(f, n): what the FrameEval node emits.
SelectDescale(c, as, st, t) ==
    LET mp == MappedProps(as, st)
    IN  IF ~ScoresOk(c, mp) THEN [kind |-> "error", idx |-> -1]
        ELSE LET best_res == BestRes(c, mp)
                 best_attempt == DictGet(ClipsByHeight(as), mp[best_res][1])
             IN  IF Rejects(mp[best_res][2], t)
                 THEN [kind |-> "source", idx |-> -1]
                 ELSE [kind |-> "descaled", idx |-> best_attempt.idx]

\* A consumer requests frame i of `descaled`; the candidates' diff frames
\* carry the statistics st. The consumer of the model starts at any frame and
\* goes on in order.
RequestFrame(i, st) ==
    /\ pc \in {"ready", "frame"}
    /\ pc = "frame" => i = n + 1
    /\ n' = i
    /\ stats' = st
    /\ out' = IF node = "FrameEval"
              THEN SelectDescale(clip, attempts, st, thr)
              ELSE [kind |-> "descaled", idx |-> attempts[1].idx]
    /\ pc' = "frame"
    /\ UNCHANGED <<err, clip, kernelsArg, widthArg, heightArg, thr, norm_kernels,
                   widths, heights, attempts, node, call, result>>

----------------------------------------------------------------------------
(* gamma2linear, linear2gamma (gamma.py 42-90) *)

\* Formats a clip can have: integer samples of 8 to 32 bits, float samples of
\* 16 or 32 bits.
GammaClips ==
    {[width |-> 18, height |-> 9, depth |-> d, sample_type |-> "INTEGER"] : d \in {8, 16, 32}}
    \cup {[width |-> 18, height |-> 9, depth |-> d, sample_type |-> "FLOAT"] : d \in {16, 32}}

Curves == {"BT709", "SRGB"}

\* The guard of both conversions: the condition under which ValueError is raised.
NotFloat32(c) == c.depth # 32 /\ c.sample_type # "FLOAT"

\* _clamp_converted: the clamped expression, tagged with the transfer curve.
ClampConverted(sigmoid, curve) ==
    [kind |-> "clip", sigmoid |-> sigmoid, transfer |-> curve]

Gamma2Linear(c, curve, sigmoid) ==
    /\ pc = "idle"
    /\ clip' = c
    /\ call' = [fn |-> "gamma2linear", curve |-> curve, sigmoid |-> sigmoid]
    /\ IF NotFloat32(c)
       THEN /\ err' = "ValueError"
            /\ result' = NoResult
            /\ pc' = "raised"
       ELSE /\ err' = "none"
            /\ result' = ClampConverted(sigmoid, "LINEAR")
            /\ pc' = "gamma"
    /\ UNCHANGED descaleVars

Linear2Gamma(c, curve, sigmoid) ==
    /\ pc = "idle"
    /\ clip' = c
    /\ call' = [fn |-> "linear2gamma", curve |-> curve, sigmoid |-> sigmoid]
    /\ IF NotFloat32(c)
       THEN /\ err' = "ValueError"
            /\ result' = NoResult
            /\ pc' = "raised"
       ELSE /\ err' = "none"
            /\ result' = ClampConverted(sigmoid, curve)
            /\ pc' = "gamma"
    /\ UNCHANGED descaleVars

----------------------------------------------------------------------------
(* descale_detail_mask (mask.py 16-51) *)

MaxExpand == 2
MaxInflate == 2

RECURSIVE Times(_, _)
Times(f, k) == IF k <= 0 THEN <<>> ELSE <<f>> \o Times(f, k - 1)

\* iterate(base, function, count) applied to a filter chain: the function is
\* appended count times; a count of zero or less returns base as it is.
Iterate(base, f, count) == IF count <= 0 THEN base ELSE base \o Times(f, count)

\* Maximum for a positive count, Minimum otherwise; the count is passed as is.
Xxpand(mask, c) ==
    IF c # 0 THEN Iterate(mask, IF c > 0 THEN "Maximum" ELSE "Minimum", c) ELSE mask

\* The chain of filters the returned mask is made of.
DescaleDetailMask(inflate, xxpand) ==
    LET m0 == <<"Expr", "Binarize">>
        m1 == Xxpand(m0, xxpand[1])
        m2 == IF inflate # 0 THEN Iterate(m1, "Inflate", inflate) ELSE m1
        m3 == Xxpand(m2, xxpand[2])
    IN  m3 \o <<"Limiter">>

DetailMask(c, inflate, xxpand) ==
    /\ pc = "idle"
    /\ clip' = c
    /\ call' = [fn |-> "descale_detail_mask", inflate |-> inflate, xxpand |-> xxpand]
    /\ result' = [kind |-> "clip", chain |-> DescaleDetailMask(inflate, xxpand)]
    /\ err' = "none"
    /\ pc' = "detail"
    /\ UNCHANGED descaleVars


----------------------------------------------------------------------------
(* descale_error_mask (mask.py 54-132), on 8-bit clips of one row: a clip is  *)
(* a sequence of frames, a frame a sequence of pixel values. The model       *)
(* covers the calls with bwbias = 1, where the chroma bias is not computed.  *)

MaskWidth == 3
MaskFrames == 4
MaxTr == 2

\* get_peak_value and get_neutral_value of an 8-bit clip.
Peak == 255
Neutral == 128

\* Values of the difference |y - rescaled|: none, small, large.
DiffVals == {0, 100, 200}
FlickerVals == {0, 200}

\* Thresholds as passed, on the 0..10 scale; a float is a list of one.
ThrLists == {<<3>>, <<3, 6>>, <<6, 3>>}

Maximum(a, b) == IF a > b THEN a ELSE b

\* std.Maximum on a row: each pixel becomes the largest of itself and its
\* neighbours.
MaximumRow(row) ==
    [x \in 1..Len(row) |->
        Maximum(row[x], Maximum(IF x > 1 THEN row[x - 1] ELSE 0,
                                IF x < Len(row) THEN row[x + 1] ELSE 0))]

RECURSIVE ExpandRow(_, _)
ExpandRow(row, k) == IF k <= 0 THEN row ELSE ExpandRow(MaximumRow(row), k - 1)

\* Morpho.expand(clip, k), rectangle or ellipse: k dilations of every frame
\* (on one row the two shapes grow alike).
MorphoExpand(c, k) == [f \in 1..Len(c) |-> ExpandRow(c[f], k)]

\* scale_value(val / 10, 32, 8) as the threshold of std.Binarize: a pixel v is
\* on when v >= val / 10 * Peak.
Binarize10(c, val) ==
    [f \in 1..Len(c) |-> [x \in 1..Len(c[f]) |->
        IF 10 * c[f][x] >= val * Peak THEN Peak ELSE 0]]

\* std.Binarize(threshold) on the 8-bit scale.
Binarize(c, t) ==
    [f \in 1..Len(c) |-> [x \in 1..Len(c[f]) |-> IF c[f][x] >= t THEN Peak ELSE 0]]

\* misc.Hysteresis(clipa, clipb) on a row: the connected parts of clipb's mask
\* that hold a pixel on in both clips.
HysteresisRow(a, b) ==
    [x \in 1..Len(b) |->
        IF \E y \in 1..Len(b) :
              /\ a[y] > 0 /\ b[y] > 0
              /\ \A z \in (IF x < y THEN x ELSE y)..(IF x < y THEN y ELSE x) : b[z] > 0
        THEN Peak ELSE 0]

Hysteresis(a, b) == [f \in 1..Len(b) |-> HysteresisRow(a[f], b[f])]

\* for scaled_thr in scaled_thrs[1:]: bin2 = error.std.Binarize(scaled_thr);
\* error = bin2.misc.Hysteresis(error), from the i-th threshold on.
RECURSIVE ThresholdChain(_, _, _)
ThresholdChain(error, thrs, i) ==
    IF i > Len(thrs) THEN error
    ELSE ThresholdChain(Hysteresis(Binarize10(error, thrs[i]), error), thrs, i + 1)

\* shift_clip(clip, offset): frame f shows frame f + offset, the first and the
\* last frame repeated beyond the ends.
ShiftClip(c, o) ==
    [f \in 1..Len(c) |-> c[IF f + o < 1 THEN 1 ELSE IF f + o > Len(c) THEN Len(c) ELSE f + o]]

\* shift_clip_multi(clip, (-tr, tr))
ShiftClipMulti(c, tr) == [k \in 1..(2 * tr + 1) |-> ShiftClip(c, k - tr - 1)]

RECURSIVE SumAt(_, _, _, _)
SumAt(cs, f, x, k) == IF k = 0 THEN 0 ELSE cs[k][f][x] + SumAt(cs, f, x, k - 1)

\* average_merge(*clips): the mean, rounded to the nearest integer.
AverageMerge(cs) ==
    [f \in 1..Len(cs[1]) |-> [x \in 1..Len(cs[1][f]) |->
        (2 * SumAt(cs, f, x, Len(cs)) + Len(cs)) \div (2 * Len(cs))]]

RECURSIVE MaxAt(_, _, _, _)
MaxAt(cs, f, x, k) ==
    IF k = 0 THEN 0 ELSE Maximum(cs[k][f][x], MaxAt(cs, f, x, k - 1))

\* combine(clips, ExprOp.MAX)
CombineMax(cs) ==
    [f \in 1..Len(cs[1]) |-> [x \in 1..Len(cs[1][f]) |-> MaxAt(cs, f, x, Len(cs))]]

\* combine([a, b], ExprOp.MIN)
CombineMin(a, b) ==
    [f \in 1..Len(a) |-> [x \in 1..Len(a[f]) |-> Min(a[f][x], b[f][x])]]

\* (mutant) the mask is merged with the temporal average by maximum.
MinWithAverageByMax(error, avg) == CombineMax(<<error, avg>>)

\* _error = combine([error, avg], ExprOp.MIN)
MinWithAverage(error, avg) == CombineMin(error, avg)

\* The temporal stabilisation (mask.py 118-125).
Stabilize(error, tr) ==
    LET avg == Binarize(AverageMerge(ShiftClipMulti(error, tr)), Neutral)
        e1 == MinWithAverage(error, avg)
        e2 == CombineMax(ShiftClipMulti(e1, tr))
    IN  CombineMin(error, e2)

\* The stages of descale_error_mask from the difference on.
DescaleErrorMask(diff, thrs, expands, tr, blur) ==
    LET exp1 == expands[1]
        exp2 == expands[2]
        exp3 == expands[3]
        e1 == MorphoExpand(diff, exp1)
        expanded == IF exp2 # 0 THEN MorphoExpand(e1, exp2) ELSE e1
        thresholded == ThresholdChain(Binarize10(expanded, thrs[1]), thrs, 2)
        grown == IF exp3 # 0 THEN MorphoExpand(thresholded, exp2) ELSE thresholded
        stable == IF tr > 1 THEN Stabilize(grown, tr) ELSE grown
    IN  [kind |-> "clip", expanded |-> expanded, thresholded |-> thresholded,
         grown |-> grown, stable |-> stable,
         chain |-> <<IF blur = "int" THEN "box_blur" ELSE "gauss_blur", "Limiter">>]

\* assert exp1 fails for a zero count; shift_clip raises for an offset beyond
\* the last frame.
ErrorMaskError(diff, expands, tr) ==
    IF expands[1] = 0 THEN "AssertionError"
    ELSE IF tr > 1 /\ tr > Len(diff) - 1 THEN "FramesLengthError"
    ELSE "none"

ErrorMask(c, diff, thrs, expands, tr, blur) ==
    /\ pc = "idle"
    /\ clip' = c
    /\ call' = [fn |-> "descale_error_mask", diff |-> diff, thr |-> thrs,
                expands |-> expands, tr |-> tr, blur |-> blur]
    /\ LET e == ErrorMaskError(diff, expands, tr)
       IN  /\ err' = e
           /\ IF e = "none"
              THEN /\ result' = DescaleErrorMask(diff, thrs, expands, tr, blur)
                   /\ pc' = "error_mask"
              ELSE /\ result' = NoResult
                   /\ pc' = "raised"
    /\ UNCHANGED descaleVars

----------------------------------------------------------------------------

KernelArgs ==
    {[kind |-> "one", val |-> k] : k \in KernelNames}
    \cup {[kind |-> "list", val |-> s] : s \in SeqsUpTo(KernelNames, MaxKernels)}

HeightArgs ==
    {[kind |-> "int", val |-> h] : h \in HeightVals}
    \cup {[kind |-> "list", val |-> s] : s \in SeqsUpTo(HeightVals, MaxRes)}

WidthArgs ==
    {[kind |-> "none", val |-> 0]}
    \cup {[kind |-> "int", val |-> w] : w \in WidthVals}
    \cup {[kind |-> "list", val |-> s] : s \in SeqsUpTo(WidthVals, MaxRes)}

Init ==
    /\ pc = "idle"
    /\ err = "none"
    /\ clip = NoClip
    /\ kernelsArg = [kind |-> "list", val |-> <<>>]
    /\ widthArg = [kind |-> "none", val |-> 0]
    /\ heightArg = [kind |-> "list", val |-> <<>>]
    /\ thr = <<0, 1>>
    /\ norm_kernels = <<>>
    /\ widths = <<>>
    /\ heights = <<>>
    /\ attempts = <<>>
    /\ node = "none"
    /\ n = 0
    /\ stats = <<>>
    /\ out = NoOut
    /\ call = NoCall
    /\ result = NoResult

Descale ==
    /\ pc = "idle"
    /\ \E c \in DescaleClips, wArg \in WidthArgs, hArg \in HeightArgs,
       kArg \in KernelArgs, t \in ThrVals :
        DescaleCall(c, wArg, hArg, kArg, t)

Request ==
    /\ pc \in {"ready", "frame"}
    /\ \E i \in (IF pc = "frame" THEN {n + 1} ELSE 0..(NumFrames - 1)) \cap 0..(NumFrames - 1) :
        \E st \in [1..Len(attempts) -> StatVals] : RequestFrame(i, st)

Gamma ==
    /\ pc = "idle"
    /\ \E c \in GammaClips, curve \in Curves, sigmoid \in BOOLEAN :
        \/ Gamma2Linear(c, curve, sigmoid)
        \/ Linear2Gamma(c, curve, sigmoid)

Detail ==
    /\ pc = "idle"
    /\ \E c \in DescaleClips, inflate \in 0..MaxInflate,
       xxpand \in (-MaxExpand..MaxExpand) \X (-MaxExpand..MaxExpand) :
        DetailMask(c, inflate, xxpand)

\* Clips of one row and several frames, or of one frame and several pixels.
DiffClips1 ==
    UNION {[1..f -> [1..1 -> FlickerVals]] : f \in 1..MaskFrames}
    \cup UNION {[1..1 -> [1..w -> DiffVals]] : w \in 1..MaskWidth}

ErrorMaskCall ==
    /\ pc = "idle"
    /\ \E c \in DescaleClips, diff \in DiffClips1, thrs \in ThrLists,
       expands \in {<<1, 0, 0>>, <<1, 1, 0>>, <<1, 1, 1>>, <<0, 1, 1>>},
       tr \in 1..MaxTr, blur \in {"int", "float"} :
        ErrorMask(c, diff, thrs, expands, tr, blur)

Next ==
    \/ ErrorMaskCall
    \/ Descale
    \/ BuildAttempts
    \/ BuildNode
    \/ Request
    \/ Gamma
    \/ Detail

Spec == Init /\ [][Next]_vars

----------------------------------------------------------------------------
(* Claims about descale() and the selector *)

Built ==
    /\ call.fn = "descale"
    /\ pc \in {"built", "ready", "frame"} \/ (pc = "raised" /\ err = "IndexError")

\* The score of candidate i of descale_attempts at the current frame.
CandidateProps == [i \in 1..Len(attempts) |-> <<attempts[i].height, stats[i]>>]
CandidateScore(i) == GetDescaleScore(clip, CandidateProps, i)

\* C1: descale() builds one candidate per (kernel, width, height) combination:
\* K kernels and R (width, height) pairs give K*R candidates, indexed 0..K*R-1,
\* every kernel paired with every pair.
C1_CrossProduct ==
    Built =>
        LET K == Len(norm_kernels)
            R == Len(widths)
        IN  /\ Len(attempts) = K * R
            /\ \A i \in 1..Len(attempts) : attempts[i].idx = i - 1
            /\ \A k \in 1..K : \A r \in 1..R :
                 \E i \in 1..Len(attempts) :
                    /\ attempts[i].kernel = norm_kernels[k]
                    /\ attempts[i].width = widths[r]
                    /\ attempts[i].height = heights[r]

\* C2: a frame that is not rejected is the descaled frame of the candidate of
\* maximal score among all candidates, the lowest index winning a tie; a sole
\* candidate is emitted as it is.
C2_BestOfAllCandidates ==
    (pc = "frame" /\ out.kind = "descaled"
        /\ \A i \in 1..Len(attempts) : CandidateScore(i).ok) =>
        /\ \A i \in 1..Len(attempts) :
              CandidateScore(out.idx + 1).val >= CandidateScore(i).val
        /\ \A i \in 1..out.idx :
              CandidateScore(i).val < CandidateScore(out.idx + 1).val

\* The winner of the selector: the first diff clip of maximal score.
Winner(mp) ==
    CHOOSE w \in 1..Len(mp) :
        /\ \A j \in 1..Len(mp) :
              GetDescaleScore(clip, mp, w).val >= GetDescaleScore(clip, mp, j).val
        /\ \A j \in 1..(w - 1) :
              GetDescaleScore(clip, mp, j).val < GetDescaleScore(clip, mp, w).val

C4_LowerErrorWins ==
    (pc = "frame" /\ node = "FrameEval" /\ Len(attempts) = 2 /\ thr[1] = 0
        /\ attempts[1].height = attempts[2].height
        /\ attempts[1].height < clip.height) =>
        \A i, j \in 1..2 :
            RatLess(stats[i], stats[j]) =>
                /\ CandidateScore(i).val > CandidateScore(j).val
                /\ out = [kind |-> "descaled", idx |-> attempts[i].idx]

\* C5: an empty kernel list or a widths/heights length mismatch raises
\* ValueError before any candidate or frame-evaluation node exists.
C5_FailFast ==
    (call.fn = "descale" /\ (Len(norm_kernels) = 0 \/ Len(widths) # Len(heights))) =>
        /\ pc = "raised"
        /\ err = "ValueError"
        /\ attempts = <<>>
        /\ node = "none"
        /\ out = NoOut

C5_Witness ==
    /\ pc = "raised" /\ err = "ValueError"
    /\ Len(norm_kernels) = 0
    /\ Len(heights) = 2

\* C10 as stated: for statistics in [0, 1] and descale heights in
\* 1..sourceHeight the selector never raises.
C10_NeverRaises ==
    (pc = "frame" /\ node = "FrameEval"
        /\ \A i \in 1..Len(attempts) : attempts[i].height \in 1..clip.height) =>
        out.kind # "error"

\* C10 amended: for statistics in [0, 1] and descale heights in
\* 1..sourceHeight-1 every score is defined and the selector returns a winner.
C10_DefinedBelowSourceHeight ==
    (pc = "frame" /\ node = "FrameEval"
        /\ \A i \in 1..Len(attempts) : attempts[i].height \in 1..(clip.height - 1)) =>
        /\ ScoresOk(clip, MappedProps(attempts, stats))
        /\ out.kind \in {"descaled", "source"}

C10_Witness ==
    /\ pc = "frame" /\ node = "FrameEval"
    /\ \A i \in 1..Len(attempts) : attempts[i].height \in 1..(clip.height - 1)
    /\ \E i \in 1..Len(attempts) : stats[i][1] = 0
    /\ out.kind = "descaled"

----------------------------------------------------------------------------
(* Claims about the gamma conversions and the detail mask *)

\* C6: gamma2linear and linear2gamma raise ValueError for every clip that is
\* not 32-bit float: a clip is accepted only if its depth is 32 and its sample
\* type is float.
C6_RejectsAllButFloat32 ==
    (pc \in {"gamma", "raised"} /\ call.fn \in {"gamma2linear", "linear2gamma"}) =>
        (err = "ValueError" <=> ~(clip.depth = 32 /\ clip.sample_type = "FLOAT"))

\* The filters a signed expand count asks for.
SignedSteps(c) ==
    IF c > 0 THEN Times("Maximum", c) ELSE IF c < 0 THEN Times("Minimum", -c) ELSE <<>>

\* C9: a positive expand count c dilates (Maximum) c times, a negative one
\* erodes (Minimum) |c| times, zero does neither; the steps run in the order
\* binarize, pre-expand, inflate, post-expand, clamp.
C9_SignedExpand ==
    pc = "detail" =>
        result.chain = <<"Expr", "Binarize">> \o SignedSteps(call.xxpand[1])
                       \o Times("Inflate", call.inflate)
                       \o SignedSteps(call.xxpand[2]) \o <<"Limiter">>

----------------------------------------------------------------------------
(* Claims about the error mask *)

AtLeast(v, val) == 10 * v >= val * Peak

SingleFrameFlicker(f, x) ==
    /\ result.grown[f][x] > 0
    /\ \A g \in ((f - call.tr)..(f + call.tr)) \cap (1..Len(result.grown)) :
          g # f => result.grown[g][x] = 0

NeverAdds ==
    \A f \in 1..Len(result.grown) : \A x \in 1..Len(result.grown[f]) :
        result.stable[f][x] <= result.grown[f][x]

\* C8 as stated: at every frame, the first and the last ones included, the
\* stabilised mask is at most the running mask and a single-frame flicker is
\* off in it.
C8_FlickerEveryFrame ==
    (pc = "error_mask" /\ call.tr > 1) =>
        /\ NeverAdds
        /\ \A f \in 1..Len(result.grown) : \A x \in 1..Len(result.grown[f]) :
              SingleFrameFlicker(f, x) => result.stable[f][x] = 0

\* C8 amended: the stabilised mask is at most the running mask at every frame,
\* and a single-frame flicker is off in it at every frame but the first and
\* the last of the clip.
C8_FlickerInnerFrames ==
    (pc = "error_mask" /\ call.tr > 1) =>
        /\ NeverAdds
        /\ \A f \in 2..(Len(result.grown) - 1) : \A x \in 1..Len(result.grown[f]) :
              SingleFrameFlicker(f, x) => result.stable[f][x] = 0

C8_Witness ==
    /\ pc = "error_mask" /\ call.tr > 1
    /\ \E f \in 2..(Len(result.grown) - 1) :
          /\ SingleFrameFlicker(f, 1)
          /\ result.stable[f][1] = 0

====
